---- MODULE Spec2Model ----
(***************************************************************************)
(* Model of src/program.py: the chamber admission scheduler.               *)
(*                                                                         *)
(* One thread per visitor (visitor(), lines 67-144) plus the driver        *)
(* (run_from_file, lines 175-186).  All threads share one ChamberState     *)
(* guarded by chamber.lock, a NON-reentrant threading.Lock (line 26); the  *)
(* three conditions cond['S'], cond['A'], cond['O'] are built on that same *)
(* lock (lines 27-31), so `with chamber.cond[t]` is an acquire of          *)
(* chamber.lock.                                                           *)
(*                                                                         *)
(* A thread's position is pc[i]; every statement group executed under the  *)
(* lock is its own step, so that states in which the lock is held and the  *)
(* shared fields are half-updated are visible.                             *)
(***************************************************************************)
EXTENDS Integers, Sequences, FiniteSets, TLC

\* Bounds of the model (not program constants).
MaxVisitors == 3
MaxK == 2

\* vtype values accepted by read_meeting_info (line 166).
Kinds == {"S", "A", "O"}
BatchKinds == {"S", "A"}

VARIABLES
    K,             \* chamber.K (line 21), the command-line capacity
    seq,           \* the parsed visitor list (line 177): seq[i] is the vtype of visitor i
    started,       \* number of visitor threads started by the driver (line 182)
    joined,        \* number of visitor threads joined by the driver (line 185)
    pc,            \* pc[i]: position of visitor thread i
    lock,          \* chamber.lock: 0 when free, else the index of the holding thread
    current_type,  \* chamber.current_type: "None", "S", "A" or "O"
    count,         \* chamber.count
    waiting,       \* chamber.waiting
    entry_order,   \* chamber.entry_order: sequence of <<index, vtype>>
    events,        \* events[i]: the messages chamber.log wrote about visitor i, in order
    finished       \* TRUE once "Simulation finished." is written (line 186)

vars == <<K, seq, started, joined, pc, lock, current_type, count,
          waiting, entry_order, events, finished>>

Threads == 1..Len(seq)

\* All visitor lists of at most MaxVisitors lines.
Inputs == UNION {[1..n -> Kinds] : n \in 0..MaxVisitors}

----------------------------------------------------------------------------
\* ChamberState.__init__ (lines 20-33) and the start of run_from_file.
\* parse_args accepts any int for K (line 190); nothing validates it.
Init ==
    /\ K \in 0..MaxK
    /\ seq \in Inputs
    /\ started = 0
    /\ joined = 0
    /\ pc = [i \in 1..MaxVisitors |-> "unstarted"]
    /\ lock = 0
    /\ current_type = "None"
    /\ count = 0
    /\ waiting = [t \in Kinds |-> 0]
    /\ entry_order = <<>>
    /\ events = [i \in 1..MaxVisitors |-> <<>>]
    /\ finished = FALSE

----------------------------------------------------------------------------
\* Pure helpers.

\* Position of the first entry of q whose index is `index`, 0 if none
\* (the enumerate loop of remove_from_queue_by_index, lines 61-62).
FirstPos(q, index) ==
    IF \E p \in 1..Len(q) : q[p][1] = index
    THEN CHOOSE p \in 1..Len(q) :
            /\ q[p][1] = index
            /\ \A r \in 1..(p - 1) : q[r][1] # index
    ELSE 0

\* Variant of remove_from_queue_by_index that pops the front entry
\* (popleft) instead of searching for the index.
remove_front(q, index) ==
    IF q = <<>> THEN q ELSE Tail(q)

\* Variant of remove_from_queue_by_index that never finds the entry.
remove_nothing(q, index) == q

\* ChamberState.remove_from_queue_by_index (lines 60-65): delete the first
\* entry with that index, wherever it stands in the deque.
remove_from_queue_by_index(q, index) ==
    LET p == FirstPos(q, index)
    IN  IF p = 0 THEN q
        ELSE SubSeq(q, 1, p - 1) \o SubSeq(q, p + 1, Len(q))

\* Variant of CanEnterBatch whose elif branch forgets `current_type == vtype`.
CanEnterBatch_AnyKind(i) ==
    IF current_type = "None"
    THEN /\ entry_order # <<>>
         /\ Head(entry_order)[2] = seq[i]
    ELSE count < K

\* Variant of CanEnterBatch whose elif branch forgets `count < K`.
CanEnterBatch_NoCapacity(i) ==
    IF current_type = "None"
    THEN /\ entry_order # <<>>
         /\ Head(entry_order)[2] = seq[i]
    ELSE current_type = seq[i]

\* Variant of CanEnterBatch that lets any batch kind open an empty chamber.
CanEnterBatch_AnyFront(i) ==
    IF current_type = "None"
    THEN entry_order # <<>>
    ELSE /\ current_type = seq[i]
         /\ count < K

\* Variant of CanEnterBatch that admits into an open same-kind session only
\* the visitor whose record is the front of the ledger (strict FIFO).
CanEnterBatch_StrictFifo(i) ==
    IF current_type = "None"
    THEN /\ entry_order # <<>>
         /\ Head(entry_order)[2] = seq[i]
    ELSE /\ current_type = seq[i]
         /\ count < K
         /\ entry_order # <<>>
         /\ Head(entry_order)[1] = i

\* can_enter of a Student/Admin thread (lines 79-89).
CanEnterBatch(i) ==
    IF current_type = "None"
    THEN /\ entry_order # <<>>
         /\ Head(entry_order)[2] = seq[i]
    ELSE /\ current_type = seq[i]
         /\ count < K

\* Variant of CanEnterOnline that forgets `current_type is None`.
CanEnterOnline_Occupied(i) ==
    /\ entry_order # <<>>
    /\ Head(entry_order)[2] = "O"

\* Variant of CanEnterOnline that forgets the front-of-ledger test.
CanEnterOnline_AnyFront(i) ==
    /\ current_type = "None"
    /\ entry_order # <<>>

\* can_enter of an Online thread (lines 119-124).
CanEnterOnline(i) ==
    /\ current_type = "None"
    /\ entry_order # <<>>
    /\ Head(entry_order)[2] = "O"

can_enter(i) ==
    IF seq[i] \in BatchKinds THEN CanEnterBatch(i) ELSE CanEnterOnline(i)

\* Places where a thread calls acquire on chamber.lock while not holding it:
\* line 69, line 77/117, line 104/137.
AcquireSites == {"reg_lock", "cond_lock", "session"}

AfterAcquire(p) ==
    CASE p = "reg_lock"  -> "reg_incr"
      [] p = "cond_lock" -> "check"
      [] p = "session"   -> "dep_count"

----------------------------------------------------------------------------
\* The driver, run_from_file (lines 175-186).

\* Lines 179-183: start the next visitor thread (the sleep between two
\* starts does not order the threads' own steps).
DriverStart ==
    /\ started < Len(seq)
    /\ started' = started + 1
    /\ pc' = [pc EXCEPT ![started + 1] = "reg_lock"]
    /\ UNCHANGED <<K, seq, joined, lock, current_type, count, waiting,
                   entry_order, events, finished>>

\* Lines 184-185: th.join() returns once that thread has finished.
DriverJoin ==
    /\ started = Len(seq)
    /\ joined < Len(seq)
    /\ pc[joined + 1] = "done"
    /\ joined' = joined + 1
    /\ UNCHANGED <<K, seq, started, pc, lock, current_type, count, waiting,
                   entry_order, events, finished>>

\* Variant of DriverFinish that does not wait for the joins.
DriverFinish_NoJoin ==
    /\ started = Len(seq)
    /\ ~finished
    /\ finished' = TRUE
    /\ UNCHANGED <<K, seq, started, joined, pc, lock, current_type, count,
                   waiting, entry_order, events>>

\* Line 186.
DriverFinish ==
    /\ started = Len(seq)
    /\ joined = Len(seq)
    /\ ~finished
    /\ finished' = TRUE
    /\ UNCHANGED <<K, seq, started, joined, pc, lock, current_type, count,
                   waiting, entry_order, events>>

----------------------------------------------------------------------------
\* A visitor thread, visitor() (lines 67-144).

\* Variant of Acquire that does not wait for the lock to be free.
Acquire_NoWait(i) ==
    /\ pc[i] \in AcquireSites
    /\ lock' = i
    /\ pc' = [pc EXCEPT ![i] = AfterAcquire(pc[i])]
    /\ UNCHANGED <<K, seq, started, joined, current_type, count,
                   waiting, entry_order, events, finished>>

\* lock.acquire() at lines 69, 77/117 and 104/137: blocks until the lock is free.
Acquire(i) ==
    /\ pc[i] \in AcquireSites
    /\ lock = 0
    /\ lock' = i
    /\ pc' = [pc EXCEPT ![i] = AfterAcquire(pc[i])]
    /\ UNCHANGED <<K, seq, started, joined, current_type, count,
                   waiting, entry_order, events, finished>>

\* Line 70.
RegIncr(i) ==
    /\ pc[i] = "reg_incr"
    /\ waiting' = [waiting EXCEPT ![seq[i]] = @ + 1]
    /\ pc' = [pc EXCEPT ![i] = "reg_append"]
    /\ UNCHANGED <<K, seq, started, joined, lock, current_type, count,
                   entry_order, events, finished>>

\* Lines 71-72 and the release at the end of the with block.
RegAppend(i) ==
    /\ pc[i] = "reg_append"
    /\ entry_order' = Append(entry_order, <<i, seq[i]>>)
    /\ events' = [events EXCEPT ![i] = Append(@, <<"ARRIVED">>)]
    /\ lock' = 0
    /\ pc' = [pc EXCEPT ![i] = "cond_lock"]
    /\ UNCHANGED <<K, seq, started, joined, current_type, count, waiting,
                   finished>>

\* Lines 79-91 / 119-125 with can_enter true.
CheckAdmit(i) ==
    /\ pc[i] = "check"
    /\ can_enter(i)
    /\ pc' = [pc EXCEPT ![i] = "admit_count"]
    /\ UNCHANGED <<K, seq, started, joined, lock, current_type, count,
                   waiting, entry_order, events, finished>>

\* Lines 79-91 / 119-125 with can_enter false, then cond.wait() (line 99 /
\* 132): the lock is released and the thread sleeps until a notify_all on
\* its condition.
CheckWait(i) ==
    /\ pc[i] = "check"
    /\ ~can_enter(i)
    /\ lock' = 0
    /\ pc' = [pc EXCEPT ![i] = "waiting"]
    /\ UNCHANGED <<K, seq, started, joined, current_type, count,
                   waiting, entry_order, events, finished>>

\* Variant of AdmitCount in which a batch visitor sets count to 1 as an
\* Online visitor does, instead of incrementing it.
AdmitCount_SetOne(i) ==
    /\ pc[i] = "admit_count"
    /\ count' = 1
    /\ current_type' = seq[i]
    /\ pc' = [pc EXCEPT ![i] = "admit_remove"]
    /\ UNCHANGED <<K, seq, started, joined, lock, waiting, entry_order,
                   events, finished>>

\* Lines 92-93 (count += 1) or 126-127 (count = 1), and current_type.
AdmitCount(i) ==
    /\ pc[i] = "admit_count"
    /\ count' = IF seq[i] \in BatchKinds THEN count + 1 ELSE 1
    /\ current_type' = seq[i]
    /\ pc' = [pc EXCEPT ![i] = "admit_remove"]
    /\ UNCHANGED <<K, seq, started, joined, lock, waiting, entry_order,
                   events, finished>>

\* Line 94 / 128.
AdmitRemove(i) ==
    /\ pc[i] = "admit_remove"
    /\ entry_order' = remove_from_queue_by_index(entry_order, i)
    /\ pc' = [pc EXCEPT ![i] = "admit_decr"]
    /\ UNCHANGED <<K, seq, started, joined, lock, current_type, count,
                   waiting, events, finished>>

\* Lines 95-97 / 129-131, and the release at the end of `with cond`.
AdmitDecr(i) ==
    /\ pc[i] = "admit_decr"
    /\ waiting' = [waiting EXCEPT ![seq[i]] = @ - 1]
    /\ events' = [events EXCEPT ![i] =
                      Append(@, IF seq[i] \in BatchKinds
                                THEN <<"ENTERED", count>>
                                ELSE <<"STARTED">>)]
    /\ lock' = 0
    /\ pc' = [pc EXCEPT ![i] = "session"]
    /\ UNCHANGED <<K, seq, started, joined, current_type, count,
                   entry_order, finished>>

\* Variant of DepartBatch that marks the chamber empty at every departure.
DepartBatch_AlwaysEmpty(i) ==
    /\ pc[i] = "dep_count"
    /\ seq[i] \in BatchKinds
    /\ count' = count - 1
    /\ events' = [events EXCEPT ![i] = Append(@, <<"LEFT", count - 1>>)]
    /\ current_type' = "None"
    /\ IF count - 1 = 0
       THEN /\ pc' = [pc EXCEPT ![i] = "dep_notify"]
            /\ lock' = lock
       ELSE /\ pc' = [pc EXCEPT ![i] = "done"]
            /\ lock' = 0
    /\ UNCHANGED <<K, seq, started, joined, waiting, entry_order, finished>>

\* Lines 105-108 of a Student/Admin: count -= 1, LEFT, and when the count
\* is 0 the chamber is marked empty and the notify loop follows; otherwise
\* the with block ends and the lock is released.
DepartBatch(i) ==
    /\ pc[i] = "dep_count"
    /\ seq[i] \in BatchKinds
    /\ count' = count - 1
    /\ events' = [events EXCEPT ![i] = Append(@, <<"LEFT", count - 1>>)]
    /\ IF count - 1 = 0
       THEN /\ current_type' = "None"
            /\ pc' = [pc EXCEPT ![i] = "dep_notify"]
            /\ lock' = lock
       ELSE /\ current_type' = current_type
            /\ pc' = [pc EXCEPT ![i] = "done"]
            /\ lock' = 0
    /\ UNCHANGED <<K, seq, started, joined, waiting, entry_order, finished>>

\* Lines 138-140 of an Online visitor.
DepartOnline(i) ==
    /\ pc[i] = "dep_count"
    /\ seq[i] = "O"
    /\ count' = 0
    /\ current_type' = "None"
    /\ events' = [events EXCEPT ![i] = Append(@, <<"ENDED">>)]
    /\ pc' = [pc EXCEPT ![i] = "dep_notify"]
    /\ UNCHANGED <<K, seq, started, joined, lock, waiting, entry_order,
                   finished>>

\* The loop of lines 110-113 / 141-144, run while the thread holds
\* chamber.lock (taken at line 104 / 137).  For a kind t with waiting[t] = 0
\* the body is skipped.  For the first kind with waiting[t] > 0 the thread
\* executes `with chamber.cond[t]`, i.e. chamber.lock.acquire() on the lock
\* it already holds; threading.Lock is not reentrant, so the call does not
\* return: the thread stays at "notify_lock" with the lock held, and
\* notify_all (line 113 / 144) is not reached.
DepNotify(i) ==
    /\ pc[i] = "dep_notify"
    /\ IF \A t \in Kinds : waiting[t] = 0
       THEN /\ lock' = 0
            /\ pc' = [pc EXCEPT ![i] = "done"]
       ELSE /\ lock' = lock
            /\ pc' = [pc EXCEPT ![i] = "notify_lock"]
    /\ UNCHANGED <<K, seq, started, joined, current_type, count,
                   waiting, entry_order, events, finished>>

\* Any step of visitor thread i.
ThreadStep(i) ==
    \/ Acquire(i)
    \/ RegIncr(i)
    \/ RegAppend(i)
    \/ CheckAdmit(i)
    \/ CheckWait(i)
    \/ AdmitCount(i)
    \/ AdmitRemove(i)
    \/ AdmitDecr(i)
    \/ DepartBatch(i)
    \/ DepartOnline(i)
    \/ DepNotify(i)

Next ==
    \/ DriverStart
    \/ DriverJoin
    \/ DriverFinish
    \/ \E i \in Threads : Acquire(i)
    \/ \E i \in Threads : RegIncr(i)
    \/ \E i \in Threads : RegAppend(i)
    \/ \E i \in Threads : CheckAdmit(i)
    \/ \E i \in Threads : CheckWait(i)
    \/ \E i \in Threads : AdmitCount(i)
    \/ \E i \in Threads : AdmitRemove(i)
    \/ \E i \in Threads : AdmitDecr(i)
    \/ \E i \in Threads : DepartBatch(i)
    \/ \E i \in Threads : DepartOnline(i)
    \/ \E i \in Threads : DepNotify(i)

Spec == Init /\ [][Next]_vars

\* Threads and driver are scheduled by the OS: a step that can be taken is
\* eventually taken.
FairSpec == Spec /\ WF_vars(Next)

----------------------------------------------------------------------------
\* Vocabulary of the properties.

\* Visitor i has committed its admission (lines 92-93 / 126-127) and has not
\* yet executed its departure update (line 105 / 138-139).
Inside(i) == pc[i] \in {"admit_remove", "admit_decr", "session", "dep_count"}

\* The step in which visitor i is admitted (lines 92-93 / 126-127).
AdmissionStep(i) == pc[i] = "admit_count" /\ pc'[i] = "admit_remove"

\* chamber.log has written message ev about visitor i.
HasEvent(i, ev) == \E p \in 1..Len(events[i]) : events[i][p][1] = ev

Registered(i) == HasEvent(i, "ARRIVED")
Entered(i) == HasEvent(i, "ENTERED") \/ HasEvent(i, "STARTED")
Left(i) == HasEvent(i, "LEFT") \/ HasEvent(i, "ENDED")

\* Number of ledger entries of kind k.
LedgerCount(k) ==
    Cardinality({p \in 1..Len(entry_order) : entry_order[p][2] = k})

\* Visitor i's record is in the ledger.
InLedger(i) == \E p \in 1..Len(entry_order) : entry_order[p][1] = i

----------------------------------------------------------------------------
\* C1: for K >= 1, all visitors that are admitted and not yet departed are
\* of the same kind.
C1_MutualExclusionOfKinds ==
    K >= 1 => \A i, j \in Threads : (Inside(i) /\ Inside(j)) => seq[i] = seq[j]

\* Two visitors of one kind share the chamber while a visitor of another
\* kind has been refused and waits.
C1_Witness ==
    /\ K >= 1
    /\ \E i, j, w \in Threads :
          /\ i # j /\ Inside(i) /\ Inside(j)
          /\ pc[w] = "waiting" /\ seq[w] # seq[i]

\* C2: for K >= 1, whenever the chamber lock is free: a batch session has
\* 0 <= count <= K, an Online session has count = 1, and an empty chamber
\* has count = 0.
C2_OccupancyInvariant ==
    (K >= 1 /\ lock = 0) =>
        /\ current_type \in BatchKinds => (0 <= count /\ count <= K)
        /\ current_type = "O" => count = 1
        /\ current_type = "None" => count = 0

\* A batch session is full and a visitor of that kind has been refused.
C2_Witness ==
    /\ K >= 1 /\ lock = 0
    /\ current_type \in BatchKinds /\ count = K
    /\ \E w \in Threads : pc[w] = "waiting" /\ seq[w] = current_type

\* C3: while an Online visitor is admitted and not yet departed, no step
\* admits any visitor.
C3_SessionExclusivity ==
    [][(\E o \in Threads : seq[o] = "O" /\ Inside(o))
         => \A j \in Threads : ~AdmissionStep(j)]_vars

\* An Online session is running and another Online visitor has been refused.
C3_Witness ==
    \E o, w \in Threads :
        /\ seq[o] = "O" /\ pc[o] = "session"
        /\ seq[w] = "O" /\ pc[w] = "waiting"

\* C4: for K >= 1, under fair scheduling every registered visitor is
\* eventually admitted and later departs.
C4_NoLostWakeups ==
    \A i \in 1..MaxVisitors :
        (K >= 1 /\ Registered(i)) ~> (Entered(i) /\ Left(i))

\* C5: whenever the chamber lock is free, waiting[k] is the number of
\* ledger entries of kind k, for each kind k.
C5_LedgerConsistency ==
    lock = 0 => \A k \in Kinds : waiting[k] = LedgerCount(k)

\* A visitor was admitted, and removed from the ledger, from behind an
\* entry of another kind that is still in the ledger.
C5_Witness ==
    /\ lock = 0
    /\ \E i \in Threads : \E p \in 1..Len(entry_order) :
          /\ pc[i] = "session"
          /\ entry_order[p][1] < i
          /\ entry_order[p][2] # seq[i]

\* C6: in every admission step that takes the chamber from empty to
\* occupied, the admitted visitor's kind is the kind of the front entry of
\* the ledger just before the step.
C6_OrderOfOpening ==
    [][\A i \in Threads :
          (AdmissionStep(i) /\ current_type = "None")
              => (entry_order # <<>> /\ Head(entry_order)[2] = seq[i])]_vars

\* A visitor has just opened a session (the ledger is still as it was
\* before the step) while an entry of another kind is in the ledger.
C6_Witness ==
    \E i \in Threads :
        /\ pc[i] = "admit_remove" /\ count = 1
        /\ Head(entry_order)[2] = seq[i]
        /\ \E p \in 1..Len(entry_order) : entry_order[p][2] # seq[i]

\* C7: for K >= 1 the run terminates: the driver writes "Simulation
\* finished." and then the numbers of ENTERED/STARTED events, of LEFT/ENDED
\* events and of visitors are equal.
C7_RoundTripAtCompletion ==
    <>(K >= 1 =>
        /\ finished
        /\ Cardinality({i \in Threads : Entered(i)}) = Len(seq)
        /\ Cardinality({i \in Threads : Left(i)}) = Len(seq))

\* C8: with K <= 0 no visitor thread is started, nothing is registered or
\* admitted, and count does not exceed K.
C8_InvalidCapacityRejected ==
    K <= 0 =>
        /\ started = 0
        /\ \A i \in 1..MaxVisitors : events[i] = <<>>
        /\ entry_order = <<>>
        /\ count <= K

\* A departure has just emptied the chamber (line 108 / 139) while the
\* front entry of the ledger is of kind k.
EmptiedWithFront(k) ==
    /\ \E d \in Threads : pc[d] = "dep_notify"
    /\ entry_order # <<>>
    /\ Head(entry_order)[2] = k

\* C9: for K >= 1, whenever a departure empties the chamber while the
\* ledger is non-empty, a visitor of the kind of the ledger front is
\* eventually admitted.
C9_HandOverProgress ==
    \A k \in Kinds :
        (K >= 1 /\ EmptiedWithFront(k)) ~> (current_type = k)

\* C10 as stated: a visitor is admitted into an empty chamber only if its
\* own record is the front entry of the ledger.
C10_OnlyFrontRecordOpens ==
    [][\A i \in Threads :
          (AdmissionStep(i) /\ current_type = "None")
              => (entry_order # <<>> /\ Head(entry_order)[1] = i)]_vars

\* C10 as amended: a visitor is admitted into an empty chamber only if its
\* record is in the ledger and the front entry of the ledger is of its
\* kind; the front entry need not be its own record.
C10_FrontKindOpens ==
    [][\A i \in Threads :
          (AdmissionStep(i) /\ current_type = "None")
              => /\ InLedger(i)
                 /\ Head(entry_order)[2] = seq[i]]_vars

\* A visitor has just opened a session although the front entry of the
\* ledger is the record of another visitor.
C10_Witness ==
    \E i \in Threads :
        /\ pc[i] = "admit_remove" /\ count = 1
        /\ InLedger(i)
        /\ Head(entry_order)[1] # i

\* C11: for K >= 1, a visitor thread never blocks while it holds the chamber lock: a
\* thread that holds the lock can always take its next step; in particular
\* a thread in its departure critical section completes it and releases
\* the lock.
C11_NoBlockingUnderLock ==
    K >= 1 => \A i \in Threads : lock = i => ENABLED ThreadStep(i)

\* C12: a batch visitor that evaluates can_enter while a session of its
\* kind is open with count < K is admitted, whatever its position in the
\* ledger: it does not go to cond.wait().
C12_SameKindCutIn ==
    [][\A i \in Threads :
          (/\ pc[i] = "check"
           /\ seq[i] \in BatchKinds
           /\ current_type = seq[i]
           /\ count < K)
              => pc'[i] # "waiting"]_vars

\* A visitor has just joined an open session of its kind (its record is
\* still where it stood in the ledger) while the record of a visitor of
\* another kind, registered before it and still waiting, stands ahead of it.
C12_Witness ==
    \E i \in Threads : \E p, q \in 1..Len(entry_order) :
        /\ pc[i] = "admit_remove" /\ count >= 2
        /\ p < q
        /\ entry_order[q][1] = i
        /\ entry_order[p][2] # seq[i]
        /\ pc[entry_order[p][1]] = "waiting"

\* C13: for K >= 1 and under fair scheduling, when a departure has emptied the chamber
\* every thread blocked in cond.wait() is woken (it leaves the wait and
\* re-evaluates can_enter).
C13_BroadcastWake ==
    \A w \in 1..MaxVisitors :
        (/\ K >= 1
         /\ \E d \in Threads : pc[d] = "dep_notify"
         /\ pc[w] = "waiting")
            ~> (pc[w] # "waiting")

\* C14: a batch departure that leaves count > 0 only decrements count: it
\* leaves current_type, the ledger and the waiting counters unchanged and
\* every thread blocked in cond.wait() stays blocked.
C14_PartialDepartureFrame ==
    [][\A i \in Threads :
          (/\ pc[i] = "dep_count" /\ pc'[i] # "dep_count"
           /\ seq[i] \in BatchKinds
           /\ count - 1 > 0)
              => /\ count' = count - 1
                 /\ current_type' = current_type
                 /\ entry_order' = entry_order
                 /\ waiting' = waiting
                 /\ \A w \in Threads : pc[w] = "waiting" => pc'[w] = "waiting"]_vars

\* One visitor has left a session that continues with another visitor of
\* its kind, and a third visitor of that kind, refused when the session was
\* full, is still blocked.
C14_Witness ==
    \E i, j, w \in Threads :
        /\ pc[i] = "done" /\ pc[j] = "session" /\ pc[w] = "waiting"
        /\ seq[i] = seq[j] /\ seq[w] = seq[j]
        /\ current_type = seq[j] /\ count = 1 /\ K >= 2

ExactlyOne(a, b, c) ==
    \/ a /\ ~b /\ ~c
    \/ ~a /\ b /\ ~c
    \/ ~a /\ ~b /\ c

C16_LedgerInArrivalOrder ==
    K >= 1 =>
        \A p, q \in 1..Len(entry_order) :
            p < q => entry_order[p][1] < entry_order[q][1]

\* Names of the messages written about visitor i, in order.
EventNames(i) == [p \in 1..Len(events[i]) |-> events[i][p][1]]

\* The messages of a complete visit (lines 72, 96 / 130, 106 / 140).
Lifecycle(i) ==
    IF seq[i] \in BatchKinds
    THEN <<"ARRIVED", "ENTERED", "LEFT">>
    ELSE <<"ARRIVED", "STARTED", "ENDED">>

IsPrefix(a, b) ==
    /\ Len(a) <= Len(b)
    /\ \A p \in 1..Len(a) : a[p] = b[p]

\* C17: the messages about each visitor are ARRIVED, then ENTERED/STARTED,
\* then LEFT/ENDED, each at most once; and once "Simulation finished." is
\* written every visitor has finished with all three messages written.
C17_EventOrdering ==
    /\ \A i \in Threads : IsPrefix(EventNames(i), Lifecycle(i))
    /\ finished =>
          \A i \in Threads : pc[i] = "done" /\ EventNames(i) = Lifecycle(i)

\* A run of at least two visitors, one of them Online, has finished.
C17_Witness ==
    /\ finished
    /\ Len(seq) >= 2
    /\ \E i, j \in Threads : seq[i] = "O" /\ seq[j] \in BatchKinds

\* Positions of a visitor thread inside a `with chamber.lock` /
\* `with cond` block.
CritSites ==
    {"reg_incr", "reg_append", "check", "admit_count", "admit_remove",
     "admit_decr", "dep_count", "dep_notify", "notify_lock"}

\* The fields of ChamberState that the lock protects.
Chamber == <<current_type, count, waiting, entry_order>>

\* C18: a thread inside a chamber critical section holds the chamber lock
\* (so at most one thread is inside one), and every step that changes
\* current_type, count, waiting or entry_order is a step of the thread that
\* holds the lock.
C18_LockDiscipline ==
    [][/\ \A i \in Threads : pc[i] \in CritSites => lock = i
       /\ \A i \in Threads : pc'[i] \in CritSites => lock' = i
       /\ Chamber' # Chamber => (lock \in Threads /\ pc'[lock] # pc[lock])]_vars

\* One thread is inside its admission critical section while another has
\* reached its own and waits for the lock.
C18_Witness ==
    \E i, j \in Threads :
        /\ lock = i /\ pc[i] = "admit_count"
        /\ pc[j] = "cond_lock"

\* C19: for K >= 1, whenever the chamber lock is free, count is the number
\* of visitors admitted and not yet departed, current_type is their kind,
\* and current_type is None exactly when there are none.
C19_CounterMatchesOccupants ==
    (K >= 1 /\ lock = 0) =>
        /\ count = Cardinality({i \in Threads : Inside(i)})
        /\ \A i \in Threads : Inside(i) => current_type = seq[i]
        /\ current_type = "None" <=> {i \in Threads : Inside(i)} = {}

\* Two visitors share a batch session.
C19_Witness ==
    /\ K >= 2 /\ lock = 0
    /\ count = 2
    /\ \E i, j \in Threads : i # j /\ pc[i] = "session" /\ pc[j] = "session"

====
